---- MODULE Spec2Model ----
(***************************************************************************)
(* BayesianOptimizer (src/pandora_bayesopt/bayesianoptimizer.py): the      *)
(* controller loop, its observation store, cost ledger and the lambda      *)
(* schedule of the Gittins-index policy.                                   *)
(*                                                                         *)
(* Numbers.  Costs, budgets and the cumulative cost are Python floats.     *)
(* They are modelled as integer multiples of a quantum, 1.0 = One quanta,  *)
(* and every float addition rounds its exact result to Precision           *)
(* significant bits, ties to even, as binary64 does with 53 bits.  A cost  *)
(* whose multiples stay representable (1.0, 2.0) sums exactly; a cost      *)
(* whose significand is full (FracCost here, 0.1 in binary64) does not.    *)
(* Objective and acquisition values are only compared, never added.        *)
(* Lambda is counted in units of 0.1/InitialLmbda, so that halving is      *)
(* exact, as halving a binary64 is.                                        *)
(***************************************************************************)
EXTENDS Integers, Sequences, FiniteSets, TLC

\* ------------------------------------------------------------ bounds
\* Completed steps (iterate calls that recorded a cost) over the optimizer's life.
MaxSteps == 4
\* Significant bits of the modelled float format.
Precision == 3
\* Invocations of run / run_until_budget on one optimizer, where it is reused.
MaxRuns == 2

\* ------------------------------------------------------- input domains
\* 1.0 in quanta: the default cost.
One == 2
\* A constant cost whose multiples are not all representable.
FracCost == One + One \div 2
\* 0.1 in lambda units.
InitialLmbda == 1024

Values == {-1, 1}
InitBatches == {<<1>>, <<-1, 1>>}
AcqValues == {0, 2}
SubValues == {512, 4096}
ConstCosts == {One, FracCost}
\* The ranges of the cost functions: the zero function, one taking two positive
\* values, and one that is negative.
CallableRanges == {{0}, {FracCost, 2 * One}, {0 - One}}
Iterations == {0, 1, MaxSteps}
Budgets == {One, 3 * One, 4 * One}
FixedLmbdas == {100}

Policies == {"ExpectedImprovement", "ExpectedImprovementWithCost", "GittinsIndex", "Other"}

\* The keyword options run / run_until_budget are called with.
NoKwargs == [step_EIpu |-> FALSE, step_halving |-> FALSE, lmbda |-> <<>>, cost_cooling |-> FALSE]
KwargsOf(p) ==
  IF p = "GittinsIndex"
  THEN { [NoKwargs EXCEPT !.step_EIpu = TRUE],
         [NoKwargs EXCEPT !.step_halving = TRUE],
         [NoKwargs EXCEPT !.step_EIpu = TRUE, !.step_halving = TRUE],
         NoKwargs }
       \cup { [NoKwargs EXCEPT !.lmbda = <<l>>] : l \in FixedLmbdas }
  ELSE IF p = "ExpectedImprovementWithCost"
  THEN { NoKwargs, [NoKwargs EXCEPT !.cost_cooling = TRUE] }
  ELSE { NoKwargs }

\* ------------------------------------------------------------ floats
RECURSIVE Pow2(_)
Pow2(n) == IF n = 0 THEN 1 ELSE 2 * Pow2(n - 1)

RECURSIVE BitLen(_)
BitLen(n) == IF n = 0 THEN 0 ELSE 1 + BitLen(n \div 2)

\* n >= 0 rounded to Precision significant bits, ties to the even significand.
RoundNat(n) ==
  IF BitLen(n) <= Precision THEN n
  ELSE LET q   == Pow2(BitLen(n) - Precision)
           m   == n \div q
           rem == n - m * q
       IN  IF 2 * rem < q THEN m * q
           ELSE IF 2 * rem > q THEN (m + 1) * q
           ELSE IF m % 2 = 0 THEN m * q ELSE (m + 1) * q

Round(n) == IF n >= 0 THEN RoundNat(n) ELSE 0 - RoundNat(0 - n)

\* a + b on floats.
FAdd(a, b) == Round(a + b)

Representable(n) == Round(n) = n

\* ------------------------------------------------------------- state
VARIABLES
  maximize,          \* self.maximize
  cost,              \* self.cost: a constant c, or a callable with the given range
  y,                 \* self.y, one value per point of self.x
  best_f,            \* self.best_f
  best_history,      \* self.best_history
  cumulative_cost,   \* self.cumulative_cost
  cost_history,      \* self.cost_history
  budget,            \* self.budget: <<>> while the attribute is not set
  has_lmbda,         \* the attributes current_lmbda, need_lmbda_update, lmbda_history exist
  current_lmbda,     \* self.current_lmbda: <<>> is None
  need_lmbda_update, \* self.need_lmbda_update
  lmbda_history,     \* self.lmbda_history
  current_acq,       \* self.current_acq: <<>> while the attribute is not set
  initial_points,    \* the number of points __init__ was given (history variable)
  new_point_EIpu,    \* iterate's local: what the last subsidiary maximization returned
  new_cost,          \* update_cost's local: the cost added by the last step
  acqf_args,         \* iterate's local: the lmbda and alpha of the last acqf_args built
  runs_left,         \* invocations the caller has still to make (environment)
  pc,                \* idle | running | completed | exhausted | failed
  mode,              \* none | run | budget: the method being executed
  acqf,              \* acquisition_function_class of the invocation
  kwargs,            \* acqf_kwargs of the invocation
  num_iterations,    \* run's num_iterations
  i,                 \* the loop index of run / run_until_budget
  err                \* the exception that ended the invocation, or none

vars == <<maximize, cost, y, best_f, best_history, cumulative_cost, cost_history,
          budget, has_lmbda, current_lmbda, need_lmbda_update, lmbda_history,
          current_acq, initial_points, new_point_EIpu, new_cost, acqf_args,
          runs_left, pc, mode, acqf, kwargs, num_iterations, i, err>>

config == <<maximize, cost, initial_points>>
locals == <<new_point_EIpu, new_cost, acqf_args>>
store == <<y, best_f, best_history>>
ledger == <<cumulative_cost, cost_history>>
sched == <<has_lmbda, current_lmbda, need_lmbda_update, lmbda_history>>
call == <<mode, acqf, kwargs, num_iterations, budget>>

\* ------------------------------------------------------- observation store
RECURSIVE SeqMax(_)
SeqMax(s) ==
  IF Len(s) = 1 THEN s[1]
  ELSE LET m == SeqMax(Tail(s)) IN IF s[1] >= m THEN s[1] ELSE m

RECURSIVE SeqMin(_)
SeqMin(s) ==
  IF Len(s) = 1 THEN s[1]
  ELSE LET m == SeqMin(Tail(s)) IN IF s[1] <= m THEN s[1] ELSE m

\* Mutant of BestOf: the newest value instead of the extremum of all values.
BestOfNewest(ys, mx) == ys[Len(ys)]

\* update_best: the extremum of all of self.y.
BestOf(ys, mx) == IF mx THEN SeqMax(ys) ELSE SeqMin(ys)

\* ------------------------------------------------------------- __init__
CostModels == { [callable |-> FALSE, c |-> c, range |-> {}] : c \in ConstCosts }
              \cup { [callable |-> TRUE, c |-> 0, range |-> r] : r \in CallableRanges }

\* acqf_args before any acquisition function was built, and with neither lmbda
\* nor alpha (lines 65-72).
NoArgs == [lmbda |-> <<>>, alpha |-> <<>>]

\* __init__ (lines 36-50) with initialize_points and update_best; the caller
\* will invoke run / run_until_budget `runs` times.
Constructed(mx, cm, batch, runs) ==
  /\ maximize = mx
  /\ cost = cm
  /\ y = batch
  /\ initial_points = Len(batch)
  /\ new_point_EIpu = <<>>
  /\ new_cost = <<>>
  /\ acqf_args = NoArgs
  /\ runs_left = runs
  /\ best_f = BestOf(batch, mx)
  /\ best_history = <<BestOf(batch, mx)>>
  /\ cumulative_cost = 0
  /\ cost_history = <<0>>
  /\ budget = <<>>
  /\ has_lmbda = FALSE
  /\ current_lmbda = <<>>
  /\ need_lmbda_update = FALSE
  /\ lmbda_history = <<>>
  /\ current_acq = <<>>
  /\ pc = "idle"
  /\ mode = "none"
  /\ acqf = "none"
  /\ kwargs = NoKwargs
  /\ num_iterations = 0
  /\ i = 0
  /\ err = "none"

\* A freshly constructed optimizer that is invoked once.
Init ==
  \E mx \in BOOLEAN, cm \in CostModels, batch \in InitBatches :
    Constructed(mx, cm, batch, 1)

\* self.cost when no cost is given (line 43).
DefaultCost == [callable |-> FALSE, c |-> One, range |-> {}]

\* A freshly constructed optimizer with the default cost that is invoked up to
\* MaxRuns times, each invocation after the one before it has returned or raised.
InitReuse ==
  \E mx \in BOOLEAN : Constructed(mx, DefaultCost, <<1>>, MaxRuns)

\* ------------------------------------------------- run / run_until_budget
\* Lines 178-186 and 194-202: the scheduler is set up only for the Gittins index
\* with a strategy option; step_halving's values overwrite step_EIpu's.
ResetLmbda(p, kw) ==
  IF p = "GittinsIndex" /\ kw.step_halving
  THEN /\ has_lmbda' = TRUE
       /\ current_lmbda' = <<InitialLmbda>>
       /\ need_lmbda_update' = FALSE
       /\ lmbda_history' = <<>>
  ELSE IF p = "GittinsIndex" /\ kw.step_EIpu
  THEN /\ has_lmbda' = TRUE
       /\ current_lmbda' = <<>>
       /\ need_lmbda_update' = TRUE
       /\ lmbda_history' = <<>>
  ELSE UNCHANGED sched

\* Steps completed so far: update_cost appends one entry per step.
Steps == Len(cost_history) - 1

\* The first invocation on a freshly constructed optimizer.
Fresh == pc = "idle"

\* No invocation is executing and the caller makes another one.
Invocable == pc # "running" /\ runs_left > 0

\* run(num_iterations, acquisition_function_class, **acqf_kwargs) up to its loop.
Run(n, p, kw) ==
  /\ Invocable
  /\ Steps + n <= MaxSteps
  /\ runs_left' = runs_left - 1
  /\ budget' = <<n * One>>
  /\ ResetLmbda(p, kw)
  /\ mode' = "run"
  /\ acqf' = p
  /\ kwargs' = kw
  /\ num_iterations' = n
  /\ i' = 0
  /\ pc' = "running"
  /\ err' = "none"
  /\ UNCHANGED <<config, store, ledger, current_acq, locals>>

\* Mutant of RunUntilBudget: the invocation starts a new cost ledger.
RunUntilBudgetResetting(b, p, kw) ==
  /\ Invocable
  /\ runs_left' = runs_left - 1
  /\ budget' = <<b>>
  /\ ResetLmbda(p, kw)
  /\ mode' = "budget"
  /\ acqf' = p
  /\ kwargs' = kw
  /\ num_iterations' = 0
  /\ i' = 0
  /\ pc' = "running"
  /\ err' = "none"
  /\ cumulative_cost' = 0
  /\ cost_history' = <<0>>
  /\ UNCHANGED <<config, store, current_acq, locals>>

\* run_until_budget(budget, acquisition_function_class, **acqf_kwargs) up to its loop.
RunUntilBudget(b, p, kw) ==
  /\ Invocable
  /\ runs_left' = runs_left - 1
  /\ budget' = <<b>>
  /\ ResetLmbda(p, kw)
  /\ mode' = "budget"
  /\ acqf' = p
  /\ kwargs' = kw
  /\ num_iterations' = 0
  /\ i' = 0
  /\ pc' = "running"
  /\ err' = "none"
  /\ UNCHANGED <<config, store, ledger, current_acq, locals>>

\* Mutant of LoopContinues: the budget test lets a step start at the budget.
LoopContinuesAtBudget ==
  IF mode = "run" THEN i < num_iterations ELSE cumulative_cost <= budget[1]

\* The loop conditions: range(num_iterations), and cumulative_cost < budget.
LoopContinues ==
  IF mode = "run" THEN i < num_iterations ELSE cumulative_cost < budget[1]

\* The loop ends and the method returns.
Return ==
  /\ pc = "running"
  /\ ~LoopContinues
  /\ pc' = IF mode = "run" THEN "completed" ELSE "exhausted"
  /\ UNCHANGED <<config, store, ledger, sched, current_acq, locals, call, i, err,
                 runs_left>>

\* ---------------------------------------------------------------- iterate
\* min(a, b) (lines 95, 111).
Min(a, b) == IF b < a THEN b ELSE a

\* Mutant of Half: a quarter.
Quarter(v) == v \div 4

\* v / 2 on floats (lines 93, 95, 119).
Half(v) == v \div 2

StrategyA == acqf = "GittinsIndex" /\ kwargs.step_EIpu
StrategyB == acqf = "GittinsIndex" /\ ~kwargs.step_EIpu /\ kwargs.step_halving
Scheduled == acqf = "GittinsIndex" /\ (kwargs.step_EIpu \/ kwargs.step_halving)

\* Lines 80-107: the step maximizes a subsidiary acquisition function first.
Recomputes == StrategyA /\ need_lmbda_update

Max(a, b) == IF b > a THEN b ELSE a

\* Mutant of Cooling: alpha is not clamped at zero.
CoolingUnclamped(b, c) == [num |-> FAdd(b, 0 - c), den |-> b]

\* Lines 74-75: alpha = max((budget - cumulative_cost) / budget, 0), kept as the
\* float difference over the budget it is divided by. The division is monotone
\* and exact at 0 and at 1, so alpha compares with 0, with 1 and with another
\* alpha over the same budget as the numerators do.
Cooling(b, c) == [num |-> Max(FAdd(b, 0 - c), 0), den |-> b]

\* Mutant of LmbdaKwarg: a missing lmbda is read as None instead of raising.
LmbdaKwargGet(kw) == "none"

\* acqf_kwargs['lmbda'] (line 125): the subscript raises when the key is missing.
LmbdaKwarg(kw) == IF kw.lmbda = <<>> THEN "KeyError" ELSE "none"

Keep == [err |-> "none", cur |-> current_lmbda, need |-> need_lmbda_update,
         hist |-> lmbda_history, args |-> NoArgs]

\* Lines 67-130, the parameters of the acquisition function: what the branch does
\* to the scheduler and puts in acqf_args, or the exception it raises. v is the
\* value the subsidiary maximization returned, read only when Recomputes.
Select(v) ==
  IF StrategyA THEN
    IF need_lmbda_update THEN
      IF cost.callable
      THEN LET l == IF current_lmbda = <<>> THEN Half(v)
                    ELSE Min(current_lmbda[1], Half(v))
           IN  [err |-> "none", cur |-> <<l>>, need |-> FALSE,
                hist |-> Append(lmbda_history, l),
                args |-> [NoArgs EXCEPT !.lmbda = <<l>>]]
      ELSE [Keep EXCEPT !.err = "UnboundLocalError"]
    ELSE [Keep EXCEPT !.hist = Append(lmbda_history, current_lmbda[1]),
                      !.args = [NoArgs EXCEPT !.lmbda = current_lmbda]]
  ELSE IF StrategyB THEN
    LET l == IF need_lmbda_update THEN Half(current_lmbda[1]) ELSE current_lmbda[1]
    IN  [err |-> "none", cur |-> <<l>>, need |-> FALSE,
         hist |-> Append(lmbda_history, l),
         args |-> [NoArgs EXCEPT !.lmbda = <<l>>]]
  ELSE IF acqf = "GittinsIndex" THEN
    IF LmbdaKwarg(kwargs) # "none"
    THEN [Keep EXCEPT !.err = LmbdaKwarg(kwargs)]
    ELSE [Keep EXCEPT !.args = [NoArgs EXCEPT !.lmbda = kwargs.lmbda]]
  ELSE IF acqf = "ExpectedImprovementWithCost" /\ kwargs.cost_cooling THEN
    IF budget[1] = 0
    THEN [Keep EXCEPT !.err = "ZeroDivisionError"]
    ELSE [Keep EXCEPT !.args =
            [NoArgs EXCEPT !.alpha = <<Cooling(budget[1], cumulative_cost)>>]]
  ELSE Keep

\* Mutant of Triggers: the attained value is not negated when minimizing.
TriggersUnsigned(a, b) ==
  /\ Scheduled
  /\ (maximize /\ a < b) \/ (~maximize /\ a > b)

\* Lines 151-153: whether the step sets need_lmbda_update, given the attained
\* acquisition value a and the best value b after the step's observation.
Triggers(a, b) ==
  /\ Scheduled
  /\ (maximize /\ a < b) \/ (~maximize /\ 0 - a > b)

\* Mutants of Charged: the cost is not added; the cost is added twice.
ChargedNothing(c) == cumulative_cost
ChargedTwice(c) == FAdd(FAdd(cumulative_cost, c), c)

\* Lines 160, 163: the new cumulative cost, c being the incremental cost.
Charged(c) == FAdd(cumulative_cost, c)

CanStep == pc = "running" /\ LoopContinues /\ Steps < MaxSteps

\* What the subsidiary maximization and the cost function may return in this state.
SubValuesNow == IF Recomputes THEN SubValues ELSE {0}
CostsNow == IF cost.callable THEN cost.range ELSE {cost.c}

CollaboratorErrors == {"fit_gp_model", "optimize_acqf", "objective", "cost"}

\* Mutant of Raise: the exception is recorded and the loop goes on.
Swallow(e) ==
  /\ pc' = pc
  /\ err' = e
  /\ UNCHANGED <<config, call, i, runs_left>>

\* An exception leaves iterate and run / run_until_budget.
Raise(e) ==
  /\ pc' = "failed"
  /\ err' = e
  /\ UNCHANGED <<config, call, i, runs_left>>

\* The subsidiary maximization returns v (lines 84, 100), when the step has one.
Subsidiary(v) ==
  new_point_EIpu' = IF Recomputes THEN <<v>> ELSE new_point_EIpu

\* Mutant of Scheduler: the lambda used is not appended to the history.
SchedulerNoAppend(sel) ==
  /\ current_lmbda' = sel.cur
  /\ lmbda_history' = lmbda_history
  /\ UNCHANGED has_lmbda

\* Lines 92-95, 112-122: the branch's assignments to the scheduler.
Scheduler(sel) ==
  /\ current_lmbda' = sel.cur
  /\ lmbda_history' = sel.hist
  /\ UNCHANGED has_lmbda

\* Mutant of Observe: the history grows only when the best value changes.
ObserveOnChange(value) ==
  /\ y' = Append(y, value)
  /\ best_f' = BestOf(y', maximize)
  /\ best_history' = IF best_f' = best_f THEN best_history
                      ELSE Append(best_history, best_f')

\* Lines 145-147: the observation is added and update_best runs.
Observe(value) ==
  /\ y' = Append(y, value)
  /\ best_f' = BestOf(y', maximize)
  /\ best_history' = Append(best_history, best_f')

\* Mutant of UpdateCost: the new total is not appended to the history.
UpdateCostNoHistory(c) ==
  /\ new_cost' = <<c>>
  /\ cumulative_cost' = Charged(c)
  /\ cost_history' = cost_history

\* update_cost (lines 156-165); c is the incremental cost.
UpdateCost(c) ==
  /\ new_cost' = <<c>>
  /\ cumulative_cost' = Charged(c)
  /\ cost_history' = Append(cost_history, cumulative_cost')

\* fit_gp_model raises (line 63).
FitFails ==
  /\ CanStep
  /\ Raise("fit_gp_model")
  /\ UNCHANGED <<store, ledger, sched, current_acq, locals>>

\* The subsidiary optimize_acqf raises (lines 84, 100).
SubsidiaryFails ==
  /\ CanStep
  /\ Recomputes
  /\ Raise("optimize_acqf")
  /\ UNCHANGED <<store, ledger, sched, current_acq, locals>>

\* The branch on the policy raises (lines 74, 109, 111, 125).
SelectFails ==
  /\ CanStep
  /\ \E v \in SubValuesNow :
       /\ Select(v).err # "none"
       /\ Subsidiary(v)
       /\ Raise(Select(v).err)
  /\ UNCHANGED <<store, ledger, sched, current_acq, new_cost, acqf_args>>

\* The main optimize_acqf raises (line 134).
MaximizerFails ==
  /\ CanStep
  /\ \E v \in SubValuesNow :
       /\ Select(v).err = "none"
       /\ Subsidiary(v)
       /\ Scheduler(Select(v))
       /\ acqf_args' = Select(v).args
       /\ need_lmbda_update' = Select(v).need
  /\ Raise("optimize_acqf")
  /\ UNCHANGED <<store, ledger, current_acq, new_cost>>

\* Mutant of ObjectiveFails: the failure comes after the observation is recorded.
ObjectiveFailsLate ==
  /\ CanStep
  /\ \E v \in SubValuesNow, a \in AcqValues, value \in Values :
       /\ Select(v).err = "none"
       /\ Subsidiary(v)
       /\ Scheduler(Select(v))
       /\ acqf_args' = Select(v).args
       /\ need_lmbda_update' = Select(v).need
       /\ current_acq' = <<a>>
       /\ Observe(value)
  /\ Raise("objective")
  /\ UNCHANGED <<ledger, new_cost>>

\* The objective raises (line 143).
ObjectiveFails ==
  /\ CanStep
  /\ \E v \in SubValuesNow, a \in AcqValues :
       /\ Select(v).err = "none"
       /\ Subsidiary(v)
       /\ Scheduler(Select(v))
       /\ acqf_args' = Select(v).args
       /\ need_lmbda_update' = Select(v).need
       /\ current_acq' = <<a>>
  /\ Raise("objective")
  /\ UNCHANGED <<store, ledger, new_cost>>

\* The cost function raises (line 159), after the observation was added.
CostFails ==
  /\ CanStep
  /\ cost.callable
  /\ \E v \in SubValuesNow, a \in AcqValues, value \in Values :
       /\ Select(v).err = "none"
       /\ Subsidiary(v)
       /\ Scheduler(Select(v))
       /\ acqf_args' = Select(v).args
       /\ need_lmbda_update' = Select(v).need
       /\ current_acq' = <<a>>
       /\ Observe(value)
  /\ Raise("cost")
  /\ UNCHANGED <<ledger, new_cost>>

\* iterate runs to its end, then print_iteration_info (lines 167-174), which
\* raises when need_lmbda_update exists and lmbda_history is empty.
Iterate ==
  /\ CanStep
  /\ \E v \in SubValuesNow, a \in AcqValues, value \in Values, c \in CostsNow :
       /\ Select(v).err = "none"
       /\ Subsidiary(v)
       /\ Scheduler(Select(v))
       /\ acqf_args' = Select(v).args
       /\ current_acq' = <<a>>
       /\ Observe(value)
       /\ UpdateCost(c)
       /\ need_lmbda_update' = (Select(v).need \/ Triggers(a, best_f'))
       /\ IF has_lmbda /\ Select(v).hist = <<>>
          THEN pc' = "failed" /\ err' = "IndexError" /\ i' = i
          ELSE pc' = pc /\ err' = err /\ i' = i + 1
  /\ UNCHANGED <<config, call, runs_left>>

\* A call of iterate, however it ends.
Step ==
  \/ FitFails
  \/ SubsidiaryFails
  \/ SelectFails
  \/ MaximizerFails
  \/ ObjectiveFails
  \/ CostFails
  \/ Iterate

Next ==
  \/ \E n \in Iterations, p \in Policies : \E kw \in KwargsOf(p) : Run(n, p, kw)
  \/ \E b \in Budgets, p \in Policies : \E kw \in KwargsOf(p) : RunUntilBudget(b, p, kw)
  \/ Return
  \/ FitFails
  \/ SubsidiaryFails
  \/ SelectFails
  \/ MaximizerFails
  \/ ObjectiveFails
  \/ CostFails
  \/ Iterate

Spec == Init /\ [][Next]_vars

\* The reused optimizer's collaborators do not fail.
NextReuse ==
  \/ \E n \in Iterations, p \in Policies : \E kw \in KwargsOf(p) : Run(n, p, kw)
  \/ \E b \in Budgets, p \in Policies : \E kw \in KwargsOf(p) : RunUntilBudget(b, p, kw)
  \/ Return
  \/ SelectFails
  \/ Iterate

SpecReuse == InitReuse /\ [][NextReuse]_vars

\* get_best_value (lines 210-211).
get_best_value == best_f

\* get_lmbda_history (lines 234-235): the attribute exists once an invocation with
\* a strategy option has set it.
get_lmbda_history ==
  IF has_lmbda THEN [err |-> "none", value |-> lmbda_history]
  ELSE [err |-> "AttributeError", value |-> <<>>]

\* ------------------------------------------------------------------ C1
\* C1 as stated: the best-value history has one entry per observation held,
\* each point of the initial batch included.
C1_OnePerObservation == Len(best_history) = Len(y)

\* C1, amended: the best-value history has one entry for the initial batch as a
\* whole and one per observation a step added.
C1_OnePerBatchAndStep == Len(best_history) = 1 + (Len(y) - initial_points)

C1_Witness == initial_points = 2 /\ Len(y) = 5 /\ Len(best_history) = 4

\* ------------------------------------------------------------------ C2
\* C2: every entry of the best-value history is at least the one before it when
\* maximizing and at most the one before it when minimizing, and get_best_value()
\* is the last entry.
C2_RunningExtremum ==
  /\ \A j \in 2..Len(best_history) :
       IF maximize THEN best_history[j] >= best_history[j - 1]
       ELSE best_history[j] <= best_history[j - 1]
  /\ get_best_value = best_history[Len(best_history)]

\* The best value improved and the newest observation is worse than it.
C2_Witness ==
  /\ Len(best_history) >= 3
  /\ best_history[1] # best_history[2]
  /\ y[Len(y)] # best_f

\* ------------------------------------------------------------------ C3
\* C3: run_until_budget starts no call of iterate in a state where
\* cumulative_cost >= budget, and has cumulative_cost >= budget when its loop ends.
C3_BudgetStop ==
  /\ [](pc = "exhausted" => cumulative_cost >= budget[1])
  /\ [][(mode = "budget" /\ Step) => cumulative_cost < budget[1]]_vars

C3_Witness == pc = "exhausted" /\ i >= 3 /\ cumulative_cost > budget[1]

\* ------------------------------------------------------------------ C4
\* Every cost the cost model can return is positive.
PositiveCost ==
  IF cost.callable THEN \A c \in cost.range : c > 0 ELSE cost.c > 0

\* C4 as stated: run_until_budget terminates under every cost model, a cost of
\* zero included. No state of the loop repeats (every step adds an observation),
\* so the loop terminates only if its steps come closer to the budget: every
\* completed step of run_until_budget raises cumulative_cost.
C4_EveryStepProgresses ==
  [][(mode = "budget" /\ Iterate) => cumulative_cost' > cumulative_cost]_vars

\* C4, amended: under a cost model whose costs are all positive every completed
\* step of run_until_budget raises cumulative_cost, and the loop has ended by the
\* time the steps the model follows are used up.
C4_PositiveCostProgresses ==
  /\ [][(mode = "budget" /\ PositiveCost /\ Iterate)
          => cumulative_cost' > cumulative_cost]_vars
  /\ [](mode = "budget" /\ PositiveCost /\ pc = "running" /\ Steps = MaxSteps
          => ~LoopContinues)

C4_Witness == pc = "exhausted" /\ PositiveCost /\ i = 3 /\ cost.callable

\* ------------------------------------------------------------------ C5
\* cost_history is 0, c, 2c, ... with exact products.
ExactMultiples ==
  \A j \in 1..Len(cost_history) : cost_history[j] = (j - 1) * cost.c

\* C5 as stated: with a constant cost c, after n completed steps cumulative_cost
\* is exactly n * c and the cost history is [0, c, 2c, ..., n * c].
C5_ExactProduct ==
  ~cost.callable => cumulative_cost = Steps * cost.c /\ ExactMultiples

\* C5, amended: with a constant cost c the cost history starts with 0, every later
\* entry is the float sum of the entry before it and c, and cumulative_cost is the
\* last entry; these are exactly 0, c, ..., n * c when every multiple of c up to
\* n * c is representable.
C5_FloatSum ==
  ~cost.callable =>
    /\ cost_history[1] = 0
    /\ \A j \in 2..Len(cost_history) :
         cost_history[j] = Round(cost_history[j - 1] + cost.c)
    /\ cumulative_cost = cost_history[Len(cost_history)]
    /\ (\A k \in 0..Steps : Representable(k * cost.c))
         => cumulative_cost = Steps * cost.c /\ ExactMultiples

C5_Witness ==
  ~cost.callable /\ cost.c = One /\ cost_history = <<0, One, 2 * One, 3 * One, 4 * One>>

\* ------------------------------------------------------------------ C6
CeilDiv(a, b) == (a + b - 1) \div b

\* The invocation ended, and not by a collaborator's failure or a missing lmbda.
Ended ==
  /\ pc \in {"completed", "exhausted", "failed"}
  /\ err \notin CollaboratorErrors \cup {"KeyError"}

\* C6: with a constant integer cost c > 0 and a budget B > 0, run_until_budget on
\* a fresh optimizer runs exactly ceil(B / c) steps and leaves the cost history
\* [0, c, ..., ceil(B / c) * c] (cost 1.0, budget 5: 5 steps, [0,1,2,3,4,5]).
C6_CeilSteps ==
  (mode = "budget" /\ ~cost.callable /\ cost.c % One = 0 /\ Ended) =>
    /\ pc = "exhausted"
    /\ i = CeilDiv(budget[1], cost.c)
    /\ Len(cost_history) = i + 1
    /\ ExactMultiples

\* ------------------------------------------------------------------ C7
\* C7 as stated: when run_until_budget ends after at least one step, the
\* cumulative cost exceeds the budget by less than the cost of the last step.
C7_OvershootBelowCost ==
  (pc = "exhausted" /\ i >= 1) => cumulative_cost - budget[1] < new_cost[1]

\* C7, amended: when run_until_budget ends after at least one step, the cumulative
\* cost before the last step was below the budget, so the overshoot is less than
\* the increase of cumulative_cost the last step recorded.
C7_LastStepBelowBudget ==
  (pc = "exhausted" /\ i >= 1) =>
    /\ cost_history[Len(cost_history) - 1] < budget[1]
    /\ cumulative_cost - budget[1]
         < cost_history[Len(cost_history)] - cost_history[Len(cost_history) - 1]

C7_Witness == pc = "exhausted" /\ i >= 2 /\ cumulative_cost > budget[1]

\* ------------------------------------------------------------------ C8
\* C8: run(N, ...) performs exactly N steps and then stops, whatever the cost
\* model; it appends N entries to the cost history and N to the best-value history.
C8_ExactlyN ==
  (mode = "run" /\ Ended) =>
    /\ pc = "completed"
    /\ i = num_iterations
    /\ Len(cost_history) = 1 + num_iterations
    /\ Len(best_history) = 1 + num_iterations

\* ------------------------------------------------------------------ C9
RECURSIVE Changes(_)
\* The number of entries of h that differ from the entry before them.
Changes(h) ==
  IF Len(h) <= 1 THEN 0
  ELSE Changes(Tail(h)) + (IF h[2] # h[1] THEN 1 ELSE 0)

LastOf(h) == h[Len(h)]

\* C9: under step_halving lambda starts at 0.1; a step that begins with
\* need_lmbda_update set uses half of the previous lambda, a step that begins with
\* it clear uses the previous lambda; the flag is clear after the step unless the
\* step's own trigger set it; after k halvings lambda is 0.1 / 2^k; and no
\* subsidiary maximization is ever performed.
C9_Halving ==
  /\ [](StrategyB /\ lmbda_history = <<>> =>
          current_lmbda = <<InitialLmbda>> /\ ~need_lmbda_update)
  /\ [](StrategyB /\ lmbda_history # <<>> =>
          /\ lmbda_history[1] = InitialLmbda
          /\ current_lmbda = <<LastOf(lmbda_history)>>
          /\ LastOf(lmbda_history) * Pow2(Changes(lmbda_history)) = InitialLmbda)
  /\ [](StrategyB => new_point_EIpu = <<>>)
  /\ [][(StrategyB /\ lmbda_history' # lmbda_history) =>
          /\ Len(lmbda_history') = Len(lmbda_history) + 1
          /\ current_lmbda' = <<LastOf(lmbda_history')>>
          /\ IF need_lmbda_update
             THEN 2 * LastOf(lmbda_history') = current_lmbda[1]
             ELSE LastOf(lmbda_history') = current_lmbda[1]
          /\ need_lmbda_update' =>
               /\ cost_history' # cost_history
               /\ Triggers(current_acq'[1], best_f')]_vars

\* Three halvings: 0.1, 0.05, 0.025, 0.0125.
C9_Witness ==
  /\ StrategyB
  /\ lmbda_history = <<InitialLmbda, InitialLmbda \div 2, InitialLmbda \div 4,
                       InitialLmbda \div 8>>

\* ------------------------------------------------------------------ C10
\* The step got past the subsidiary maximization (lines 84, 100): the maximizer
\* returned a subsidiary optimum.
SubsidiaryReturned ==
  Recomputes /\ (SelectFails \/ MaximizerFails \/ ObjectiveFails \/ CostFails \/ Iterate)

\* The rule of lines 92-95: lambda becomes the proposed value, half of the
\* subsidiary optimum, on the run's first computation and the minimum of the
\* previous lambda and the proposed value afterwards.
SetsLmbda ==
  /\ current_lmbda' # <<>>
  /\ lmbda_history' = Append(lmbda_history, current_lmbda'[1])
  /\ IF new_point_EIpu = <<>>
     THEN 2 * current_lmbda'[1] = new_point_EIpu'[1]
     ELSE \/ /\ 2 * current_lmbda'[1] = new_point_EIpu'[1]
             /\ current_lmbda'[1] <= current_lmbda[1]
          \/ /\ current_lmbda'[1] = current_lmbda[1]
             /\ 2 * current_lmbda[1] <= new_point_EIpu'[1]

NonIncreasing ==
  \A j \in 2..Len(lmbda_history) : lmbda_history[j] <= lmbda_history[j - 1]

\* C10: under step_EIpu the lambda history never increases, whatever subsidiary
\* optima the maximizer returns; the first computation of a run sets lambda to
\* the proposed value and each later one to the minimum of the previous lambda
\* and the proposed value.
C10_NonIncreasing ==
  /\ [](StrategyA => NonIncreasing)
  /\ [][(StrategyA /\ ~kwargs.step_halving /\ SubsidiaryReturned) => SetsLmbda]_vars

\* What the code does keep: the history never increases, and with a callable
\* cost every returned subsidiary optimum sets lambda by the rule.
C10_CallableCost ==
  /\ [](StrategyA => NonIncreasing)
  /\ [][(StrategyA /\ ~kwargs.step_halving /\ cost.callable /\ SubsidiaryReturned)
          => SetsLmbda]_vars

\* A recomputation lowered lambda, and a later one proposed more and kept it.
C10_CallableWitness ==
  /\ StrategyA /\ ~kwargs.step_halving
  /\ lmbda_history = <<2048, 256, 256>>
  /\ new_point_EIpu = <<4096>>

\* ------------------------------------------------------------------ C11
\* The index policy with a lambda the caller supplies and no strategy option.
FixedLmbda ==
  /\ acqf = "GittinsIndex"
  /\ ~kwargs.step_EIpu /\ ~kwargs.step_halving
  /\ kwargs.lmbda # <<>>

\* The step built its acquisition function (line 132).
BuiltAcqf == MaximizerFails \/ ObjectiveFails \/ CostFails \/ Iterate

\* No step of a fixed-lambda run changes the scheduler's lambda or flag, and every
\* step passes the supplied lambda.
Bypassed ==
  [][(FixedLmbda /\ Step) =>
       /\ UNCHANGED <<current_lmbda, need_lmbda_update, lmbda_history>>
       /\ BuiltAcqf => acqf_args'.lmbda = kwargs.lmbda]_vars

\* C11: in a run of the index policy with a fixed supplied lambda, the lambda
\* history reported for the run is constant at the supplied value, no step
\* changes the scheduler's current lambda or need_lmbda_update, and every step
\* passes the supplied lambda to the acquisition function.
C11_FixedLmbda ==
  /\ [](FixedLmbda /\ pc # "idle" =>
          /\ get_lmbda_history.err = "none"
          /\ \A j \in 1..Len(get_lmbda_history.value) :
               get_lmbda_history.value[j] = kwargs.lmbda[1])
  /\ Bypassed

\* What the code does keep of C11: the scheduler is bypassed.
C11_Bypassed == Bypassed

\* The reported history of a fixed-lambda run holds another run's entries.
C11_StaleHistory ==
  /\ FixedLmbda /\ pc = "completed" /\ i >= 1
  /\ get_lmbda_history.err = "none"
  /\ get_lmbda_history.value # <<>>

\* ------------------------------------------------------------------ C12
\* This step is the entry of run or run_until_budget.
Invoked == runs_left' # runs_left

\* An invocation with a strategy option starts from the strategy's fresh state
\* (lines 179-186, 195-202).
StrategyReset ==
  [][Invoked =>
       /\ StrategyB' => /\ current_lmbda' = <<InitialLmbda>>
                        /\ ~need_lmbda_update'
                        /\ lmbda_history' = <<>>
       /\ (StrategyA' /\ ~kwargs'.step_halving) =>
            /\ current_lmbda' = <<>>
            /\ need_lmbda_update'
            /\ lmbda_history' = <<>>]_vars

\* C12: every invocation of run / run_until_budget starts with a fresh scheduler,
\* whatever its policy and options: the lambda history is empty, and without a
\* strategy option there is no current lambda and no flag, as on a new optimizer;
\* so nothing an earlier invocation left is seen by, or fails, a later one.
C12_FreshScheduler ==
  /\ StrategyReset
  /\ [][Invoked =>
          /\ lmbda_history' = <<>>
          /\ ~Scheduled' => /\ ~has_lmbda'
                            /\ current_lmbda' = <<>>
                            /\ ~need_lmbda_update']_vars
  /\ [](err # "IndexError")

\* What the code does keep of C12: the reset under a strategy option.
C12_StrategyReset == StrategyReset

\* A run without a strategy option fails in print_iteration_info on what a
\* strategy run without steps left behind.
C12_StaleFailure ==
  /\ ~Scheduled /\ err = "IndexError" /\ has_lmbda /\ lmbda_history = <<>>

\* ------------------------------------------------------------------ C13
\* C13: cumulative cost never decreases, under any cost model: no step records a
\* negative cost, a negative value of the cost function ends the step with
\* InvalidCost and leaves cumulative_cost and cost_history as they were.
C13_NeverDecreases ==
  /\ [][cumulative_cost' >= cumulative_cost]_vars
  /\ [](\A j \in 2..Len(cost_history) : cost_history[j] >= cost_history[j - 1])
  /\ [][(Iterate /\ new_cost'[1] < 0) => (err' = "InvalidCost" /\ UNCHANGED ledger)]_vars

\* What the code does keep of C13: costs that are not negative never lower the
\* cumulative cost, rounding included.
C13_NonNegativeCosts ==
  [][(\A c \in CostsNow : c >= 0) => cumulative_cost' >= cumulative_cost]_vars

\* ------------------------------------------------------------------ C14
\* A collaborator raises during the step.
CollaboratorFails ==
  FitFails \/ SubsidiaryFails \/ MaximizerFails \/ ObjectiveFails \/ CostFails

\* C14: a failure of a collaborator (surrogate fit, subsidiary or main maximizer,
\* objective, cost function) leaves run / run_until_budget as that exception: the
\* step is not counted, no step and no return follows it, and the invocation
\* never becomes Completed or Exhausted.
C14_FailurePropagates ==
  /\ [][CollaboratorFails =>
          (pc' = "failed" /\ err' \in CollaboratorErrors /\ i' = i)]_vars
  /\ [](pc = "failed" => ~ENABLED Step /\ ~ENABLED Return)
  /\ [][pc = "failed" => pc' \notin {"completed", "exhausted"}]_vars

\* The objective failed in the third step of a budget run that had budget left.
C14_Witness ==
  /\ pc = "failed" /\ err = "objective" /\ mode = "budget"
  /\ i = 2 /\ cumulative_cost < budget[1]

\* ------------------------------------------------------------------ C15
\* The optimizer is not left inside a step that the cost function ended after the
\* observation was recorded (lines 147-148, 159).
BetweenSteps == ~(pc = "failed" /\ err = "cost")

\* C15: between steps the cost history and the best-value history have the same
\* length: construction leaves the single entry 0 in the one and the entry of the
\* initial batch in the other, and every completed step appends one entry to each.
C15_SameLength ==
  /\ [](BetweenSteps => Len(cost_history) = Len(best_history))
  /\ [](pc = "idle" => cost_history = <<0>> /\ Len(best_history) = 1)
  /\ [][Iterate => /\ Len(cost_history') = Len(cost_history) + 1
                   /\ Len(best_history') = Len(best_history) + 1]_vars

\* Four steps after an initial batch of two points: five entries each, six
\* observations.
C15_Witness ==
  /\ pc = "completed" /\ initial_points = 2
  /\ Len(cost_history) = 5 /\ Len(best_history) = 5 /\ Len(y) = 6

\* ------------------------------------------------------------------ C16
\* C16: under step_EIpu with a constant cost, a step that begins with
\* need_lmbda_update set (the first step of the run among them) and whose
\* subsidiary maximization returned does not raise in the branch: it sets lambda
\* from half of the returned value, passes that lambda to the acquisition
\* function, and leaves the flag clear unless the completed step's trigger set it.
C16_ConstantCost ==
  [][(StrategyA /\ ~kwargs.step_halving /\ ~cost.callable /\ SubsidiaryReturned) =>
       /\ ~SelectFails
       /\ SetsLmbda
       /\ acqf_args'.lmbda = current_lmbda'
       /\ need_lmbda_update' => (Iterate /\ Triggers(current_acq'[1], best_f'))]_vars

\* ------------------------------------------------------------------ C17
\* The acquisition value attained at the chosen point is worse than the best
\* observed value.
Worse ==
  /\ current_acq # <<>>
  /\ \/ maximize /\ current_acq[1] < best_f
     \/ ~maximize /\ 0 - current_acq[1] > best_f

\* C17: after every completed step under step_EIpu or step_halving the flag is set
\* exactly when the attained acquisition value is worse than the best value that
\* includes the step's observation; a set flag is cleared only by a step that
\* recomputes or halves lambda; and under any other policy, or with a fixed
\* lambda, the flag is never set.
C17_Trigger ==
  /\ [][(Scheduled /\ Iterate) => (need_lmbda_update' <=> Worse')]_vars
  /\ [][(need_lmbda_update /\ ~need_lmbda_update' /\ ~Invoked) =>
          /\ Scheduled
          /\ Len(lmbda_history') = Len(lmbda_history) + 1
          /\ StrategyB => 2 * current_lmbda'[1] = current_lmbda[1]]_vars
  /\ [][(~Scheduled' /\ need_lmbda_update') => need_lmbda_update]_vars

\* Minimizing under step_halving: the flag was set, a halving cleared it, and the
\* next step's trigger set it again.
C17_Witness ==
  /\ StrategyB /\ ~maximize /\ pc = "running"
  /\ need_lmbda_update /\ Worse
  /\ Len(lmbda_history) = 3 /\ lmbda_history[3] < lmbda_history[2]
  /\ lmbda_history[2] = lmbda_history[1]

\* ------------------------------------------------------------------ C18
\* C18: under step_EIpu or step_halving the lambda history of a run has one entry
\* per completed step, the entry a step appends is the lambda it passes to the
\* acquisition function, and a step that begins with the flag clear appends the
\* value of the step before it (so without triggers all entries are equal).
C18_OnePerStep ==
  /\ [](Scheduled /\ pc # "failed" => Len(lmbda_history) = i)
  /\ [][(Scheduled /\ Iterate) =>
          /\ acqf_args'.lmbda # <<>>
          /\ lmbda_history' = Append(lmbda_history, acqf_args'.lmbda[1])]_vars
  /\ [][(Scheduled /\ Iterate /\ ~need_lmbda_update /\ lmbda_history # <<>>) =>
          LastOf(lmbda_history') = LastOf(lmbda_history)]_vars

\* Four steps under step_EIpu with no trigger after the first computation.
C18_Witness ==
  /\ StrategyA /\ ~kwargs.step_halving /\ pc = "completed" /\ i = 4
  /\ Len(lmbda_history) = 4
  /\ \A j \in 1..4 : lmbda_history[j] = lmbda_history[1]

\* ------------------------------------------------------------------ C19
\* The cost-weighted improvement policy with cost_cooling set.
CoolingOn == acqf = "ExpectedImprovementWithCost" /\ kwargs.cost_cooling

\* The cost model returns no negative cost.
NonNegativeCosts ==
  IF cost.callable THEN \A c \in cost.range : c >= 0 ELSE cost.c >= 0

\* C19: under cost cooling every step passes alpha = max(0, (budget -
\* cumulative_cost) / budget), with the budget of the current invocation and the
\* cumulative cost before the step; with costs that are not negative the budget
\* is not zero in any step, 0 <= alpha <= 1, and alpha does not increase from one
\* step of the run to the next.
C19_Cooling ==
  /\ [][(CoolingOn /\ BuiltAcqf) =>
          /\ acqf_args'.alpha # <<>>
          /\ acqf_args'.alpha[1].den = budget[1]
          /\ acqf_args'.alpha[1].num =
               (IF Round(budget[1] - cumulative_cost) > 0
                THEN Round(budget[1] - cumulative_cost) ELSE 0)]_vars
  /\ [][(CoolingOn /\ NonNegativeCosts /\ Step) =>
          /\ budget[1] # 0
          /\ err' # "ZeroDivisionError"]_vars
  /\ [][(CoolingOn /\ NonNegativeCosts /\ BuiltAcqf) =>
          /\ 0 <= acqf_args'.alpha[1].num
          /\ acqf_args'.alpha[1].num <= acqf_args'.alpha[1].den
          /\ (i >= 1 /\ acqf_args.alpha # <<>>) =>
               acqf_args'.alpha[1].num <= acqf_args.alpha[1].num]_vars

\* A run whose last step began above its budget and passed alpha = 0.
C19_Witness ==
  /\ CoolingOn /\ pc = "completed" /\ i >= 3
  /\ cost_history[Len(cost_history) - 1] > budget[1]
  /\ acqf_args.alpha = <<[num |-> 0, den |-> budget[1]]>>

\* ------------------------------------------------------------------ C20
\* C20: run and run_until_budget start from the observations, best-value
\* history, cumulative cost and cost history the optimizer holds, whatever
\* invocations came before; an invocation of run_until_budget that finds
\* cumulative_cost >= budget performs no step and returns with all of them as
\* they were.
C20_Persist ==
  /\ [][Invoked => UNCHANGED <<store, ledger>>]_vars
  /\ [](mode = "budget" /\ pc = "running" /\ cumulative_cost >= budget[1] =>
          ~ENABLED Step /\ ENABLED Return)
  /\ [][Return => UNCHANGED <<store, ledger>>]_vars
  /\ [](pc = "exhausted" /\ i = 0 => cumulative_cost >= budget[1])

\* A second run_until_budget on an optimizer that has spent its budget: no step.
C20_Witness ==
  /\ runs_left = 0 /\ mode = "budget" /\ pc = "exhausted" /\ i = 0
  /\ Len(cost_history) = 4 /\ Len(y) = 4
  /\ cumulative_cost = budget[1]

\* ------------------------------------------------------------------ C21
\* The step ends in a failure of the surrogate fit, of a maximizer or of the
\* objective: every failure before line 145.
FailsBeforeRecording == FitFails \/ SubsidiaryFails \/ MaximizerFails \/ ObjectiveFails

\* C21: when the surrogate fit, the subsidiary or the main maximizer, or the
\* objective fails during a step, the observations, the best value and its
\* history, the cumulative cost and the cost history are as they were before the
\* step; of the optimizer's components only the scheduler (lambda, flag, lambda
\* history) may have been changed by the step.
C21_NothingRecorded ==
  /\ [][FailsBeforeRecording => UNCHANGED <<store, ledger, config, has_lmbda>>]_vars
  /\ [][(FailsBeforeRecording /\ ~Scheduled) => UNCHANGED sched]_vars
  /\ [](pc = "failed" /\ err \in {"fit_gp_model", "optimize_acqf", "objective"} =>
          /\ Len(y) = initial_points + i
          /\ Len(best_history) = 1 + i
          /\ Len(cost_history) = 1 + i)

\* The objective failed in the second step of a step_EIpu run: the step's lambda
\* is in the history, its observation and cost are not recorded.
C21_Witness ==
  /\ pc = "failed" /\ err = "objective" /\ StrategyA /\ i = 1
  /\ Len(lmbda_history) = 2
  /\ Len(y) = initial_points + 1 /\ Len(cost_history) = 2 /\ Len(best_history) = 2

\* ------------------------------------------------------------------ C22
\* The index policy with neither a strategy option nor a lmbda (the options of
\* the call hold nothing iterate recognises, as with halving=True).
NoLmbda ==
  /\ acqf = "GittinsIndex"
  /\ ~kwargs.step_EIpu /\ ~kwargs.step_halving
  /\ kwargs.lmbda = <<>>

====
